---- MODULE Spec2Model ----
(***************************************************************************)
(* Model of BuildingAQuasiAgent.py: the code-block extractor, the turn     *)
(* formatter, the file saver and the three-step conversation driver        *)
(* (create_python_function) with its caller main.                          *)
(*                                                                         *)
(* Text is a sequence of one-character strings.  The fixed prompt          *)
(* literals of the program are kept as single elements holding the         *)
(* literal text.                                                           *)
(***************************************************************************)
EXTENDS Integers, Sequences, FiniteSets, TLC

VARIABLES
    pc,                  \* position in main / create_python_function
    frame,               \* create_python_function's frame: "absent", "live", "unwound", "returned"
    description,         \* main's description (stripped input)
    show_full,           \* main's show_full / show_full_responses
    messages,            \* local: the conversation history
    response1, response2, response3,                 \* locals: raw completion texts
    basic_function, documented_function, final_code, \* locals: extracted code
    filename,            \* local: result of save_function_to_file (<<>> models None)
    result,              \* main's (basic, documented, final): <<>> while unbound
    calls,               \* the completion() invocations seen by the client, in order
    console,             \* what has been printed
    fileWritten,         \* TRUE once open(filename,'w')/write succeeded
    fileName, fileContent, \* the file on disk
    failedStep,          \* step whose completion call raised, 0 if none
    outcome,             \* how main ended
    text, ops, vals      \* function harness: input text, operations applied, their results

driverVars == <<pc, frame, description, show_full, messages,
                response1, response2, response3,
                basic_function, documented_function, final_code,
                filename, result, calls, console,
                fileWritten, fileName, fileContent, failedStep, outcome>>
fnVars == <<text, ops, vals>>
vars == <<driverVars, fnVars>>

----------------------------------------------------------------------------
(* Bounds *)

MaxFrags == 4

MaxOps == 3

----------------------------------------------------------------------------
(* Text primitives (Python str methods) *)

WS == {" ", "\n", "\t"}

\* the backquote character (U+0060); a string literal cannot hold it
Backquote == "BQ"

Marker == <<Backquote, Backquote, Backquote>>

Python == <<"p", "y", "t", "h", "o", "n">>

TagLen == 6

MaxFilenameLen == 40

DebugLen == 100

RECURSIVE lstrip(_)
lstrip(s) ==
    IF s = <<>> THEN s
    ELSE IF Head(s) \in WS THEN lstrip(Tail(s)) ELSE s

RECURSIVE rstrip(_)
rstrip(s) ==
    IF s = <<>> THEN s
    ELSE IF s[Len(s)] \in WS THEN rstrip(SubSeq(s, 1, Len(s) - 1)) ELSE s

strip(s) == rstrip(lstrip(s))

startswith(s, p) == Len(s) >= Len(p) /\ SubSeq(s, 1, Len(p)) = p

\* str.find, 1-based; 0 when sub does not occur
find(s, sub) ==
    LET hits == {i \in 1..(Len(s) - Len(sub) + 1) : SubSeq(s, i, i + Len(sub) - 1) = sub}
    IN IF hits = {} THEN 0 ELSE CHOOSE i \in hits : \A j \in hits : i <= j

contains(s, sub) == find(s, sub) # 0

\* str.split(sep): non-overlapping occurrences, left to right
RECURSIVE split(_, _)
split(s, sep) ==
    LET i == find(s, sep)
    IN IF i = 0 THEN <<s>>
       ELSE <<SubSeq(s, 1, i - 1)>> \o split(SubSeq(s, i + Len(sep), Len(s)), sep)

Slice(s, n) == SubSeq(s, 1, IF Len(s) < n THEN Len(s) ELSE n)

----------------------------------------------------------------------------
(* Code Extractor and Turn Formatter *)

\* variant: the language identifier is left in place
extract_code_block_keeps_tag(response) ==
    IF contains(response, Marker) /\ Len(split(response, Marker)) >= 3
    THEN strip(split(response, Marker)[2])
    ELSE strip(response)

\* variant: no strip after the language identifier is cut off
extract_code_block_no_second_strip(response) ==
    IF contains(response, Marker) /\ Len(split(response, Marker)) >= 3
    THEN LET parts == split(response, Marker)
             code_block == strip(parts[2])
         IN IF startswith(code_block, Python)
            THEN SubSeq(code_block, TagLen + 1, Len(code_block))
            ELSE code_block
    ELSE strip(response)

\* variant: the fallback returns the response as it came
extract_code_block_raw_fallback(response) ==
    IF contains(response, Marker) /\ Len(split(response, Marker)) >= 3
    THEN LET parts == split(response, Marker)
             code_block == strip(parts[2])
         IN IF startswith(code_block, Python)
            THEN strip(SubSeq(code_block, TagLen + 1, Len(code_block)))
            ELSE code_block
    ELSE response

extract_code_block(response) ==
    IF contains(response, Marker) /\ Len(split(response, Marker)) >= 3
    THEN LET parts == split(response, Marker)
             code_block == strip(parts[2])
         IN IF startswith(code_block, Python)
            THEN strip(SubSeq(code_block, TagLen + 1, Len(code_block)))
            ELSE code_block
    ELSE strip(response)

create_clean_assistant_response(code) ==
    Marker \o Python \o <<"\n">> \o code \o <<"\n">> \o Marker

----------------------------------------------------------------------------
(* File saver *)

Alnum == {"x", "X", "p", "y", "t", "h", "o", "n"}

lower(c) == IF c = "X" THEN "x" ELSE c

RECURSIVE strip_underscores(_)
strip_underscores(s) ==
    IF s = <<>> THEN s
    ELSE IF Head(s) = "_" THEN strip_underscores(Tail(s))
    ELSE IF s[Len(s)] = "_" THEN strip_underscores(SubSeq(s, 1, Len(s) - 1))
    ELSE s

generate_filename(d) ==
    LET lowered  == [i \in 1..Len(d) |-> lower(d[i])]
        kept     == SelectSeq(lowered, LAMBDA c : c \in Alnum \/ c \in WS)
        replaced == [i \in 1..Len(kept) |-> IF kept[i] = " " THEN "_" ELSE kept[i]]
    IN strip_underscores(Slice(replaced, MaxFilenameLen)) \o <<"_complete.py">>

----------------------------------------------------------------------------
(* Messages and prompts; ''' in a prompt literal stands for three backquotes *)

Msg(r, c) == [role |-> r, content |-> c]

SystemPrompt ==
    <<"You are an expert Python programmer. Write clean, efficient functions based on user descriptions. Always output code in '''python code blocks'''.">>

Step1Prompt(d) ==
    <<"Write a Python function that ">> \o d
        \o <<". Output the function in a '''python code block'''.">>

Step2Prompt ==
    <<"Add comprehensive documentation to this function including: function description, parameter descriptions with types, return value description, example usage, and edge cases. Output the complete documented function in a '''python code block'''.">>

Step3Prompt ==
    <<"Add comprehensive unittest test cases to this code. Include tests for: basic functionality, edge cases, error cases, and various input scenarios. Return the complete code with the function, imports, test class, and main block to run tests in a '''python code block'''.">>

UserPrompt(k, d) ==
    IF k = 1 THEN Step1Prompt(d) ELSE IF k = 2 THEN Step2Prompt ELSE Step3Prompt

Line(t, x) == [tag |-> t, text |-> x]

----------------------------------------------------------------------------
(* Inputs *)

\* what the user may type as the description
DescriptionInputs ==
    { <<>>, <<" ">>, <<"x">>, <<" ", "x", " ">>, <<"X", " ", "x", "!">> }

\* what the completion service may return
ResponseTexts ==
    { <<"x">>,
      <<" ", "x", "\n">>,
      Marker \o Python \o <<"\n", "x", "\n">> \o Marker,
      <<"x", " ">> \o Marker \o Python \o <<"\n", "x", "\n">> \o Marker \o <<" ", "x">>,
      Marker \o Python \o <<"\n", "x">>,
      Marker \o <<"\n">> \o Python \o <<"x", "\n">> \o Marker }

Frags == { Marker, Python, <<" ">>, <<"\n">>, <<"x">>, <<Backquote>> }

RECURSIVE Concats(_)
Concats(n) ==
    IF n = 0 THEN {<<>>}
    ELSE LET prev == Concats(n - 1)
         IN prev \cup {p \o f : p \in prev, f \in Frags}

SpecExample ==
    <<"x", " ">> \o Marker \o Python \o <<"\n", "x", "\n">> \o Marker \o <<" ", "x">>

TextInputs == Concats(MaxFrags) \cup {SpecExample}

----------------------------------------------------------------------------
(* Initial states *)

DriverIdle ==
    /\ pc = "main_input"
    /\ frame = "absent"
    /\ description = <<>>
    /\ show_full = FALSE
    /\ messages = <<>>
    /\ response1 = <<>> /\ response2 = <<>> /\ response3 = <<>>
    /\ basic_function = <<>> /\ documented_function = <<>> /\ final_code = <<>>
    /\ filename = <<>>
    /\ result = <<>>
    /\ calls = <<>>
    /\ console = <<>>
    /\ fileWritten = FALSE
    /\ fileName = <<>> /\ fileContent = <<>>
    /\ failedStep = 0
    /\ outcome = "running"

FnIdle == text = <<>> /\ ops = <<>> /\ vals = <<>>

Init == DriverIdle /\ FnIdle

----------------------------------------------------------------------------
(* main and create_python_function *)

\* main, lines 211-215: empty description
MainNoDescription ==
    /\ pc = "main_input"
    /\ \E d \in DescriptionInputs :
          /\ strip(d) = <<>>
          /\ description' = strip(d)
    /\ console' = Append(console, Line("no_description", <<>>))
    /\ outcome' = "no_description"
    /\ pc' = "done"
    /\ UNCHANGED <<frame, show_full, messages, response1, response2, response3,
                   basic_function, documented_function, final_code, filename,
                   result, calls, fileWritten, fileName, fileContent, failedStep>>
    /\ UNCHANGED fnVars

\* main, lines 211-225, and create_python_function, lines 82-91
MainStart ==
    /\ pc = "main_input"
    /\ \E d \in DescriptionInputs, s \in BOOLEAN :
          /\ strip(d) # <<>>
          /\ description' = strip(d)
          /\ show_full' = s
          /\ console' = console \o <<Line("starting", <<>>), Line("creating", strip(d))>>
    /\ frame' = "live"
    /\ messages' = <<Msg("system", SystemPrompt)>>
    /\ pc' = "user1"
    /\ UNCHANGED <<response1, response2, response3,
                   basic_function, documented_function, final_code, filename,
                   result, calls, fileWritten, fileName, fileContent, failedStep, outcome>>
    /\ UNCHANGED fnVars

AtUser(k) == pc = (IF k = 1 THEN "user1" ELSE IF k = 2 THEN "user2" ELSE "user3")
AtCall(k) == pc = (IF k = 1 THEN "call1" ELSE IF k = 2 THEN "call2" ELSE "call3")
AtExtract(k) == pc = (IF k = 1 THEN "extract1" ELSE IF k = 2 THEN "extract2" ELSE "extract3")
AtAssistant(k) == pc = (IF k = 1 THEN "assistant1" ELSE "assistant2")

\* variant: every step starts a fresh history
AppendUser_fresh_history(k) ==
    /\ AtUser(k)
    /\ messages' = <<Msg("system", SystemPrompt), Msg("user", UserPrompt(k, description))>>
    /\ console' = Append(console, Line("step", <<>>))
    /\ pc' = (IF k = 1 THEN "call1" ELSE IF k = 2 THEN "call2" ELSE "call3")
    /\ UNCHANGED <<frame, description, show_full, response1, response2, response3,
                   basic_function, documented_function, final_code, filename,
                   result, calls, fileWritten, fileName, fileContent, failedStep, outcome>>
    /\ UNCHANGED fnVars

\* lines 99-102, 129-132, 159-162
AppendUser(k) ==
    /\ AtUser(k)
    /\ messages' = Append(messages, Msg("user", UserPrompt(k, description)))
    /\ console' = Append(console, Line("step", <<>>))
    /\ pc' = (IF k = 1 THEN "call1" ELSE IF k = 2 THEN "call2" ELSE "call3")
    /\ UNCHANGED <<frame, description, show_full, response1, response2, response3,
                   basic_function, documented_function, final_code, filename,
                   result, calls, fileWritten, fileName, fileContent, failedStep, outcome>>
    /\ UNCHANGED fnVars

\* generate_response returns: lines 104, 134, 164 with 12-19
CompletionOk(k) ==
    /\ AtCall(k)
    /\ \E r \in ResponseTexts :
          /\ calls' = Append(calls, [messages |-> messages, raised |-> FALSE, content |-> r])
          /\ response1' = (IF k = 1 THEN r ELSE response1)
          /\ response2' = (IF k = 2 THEN r ELSE response2)
          /\ response3' = (IF k = 3 THEN r ELSE response3)
    /\ pc' = (IF k = 1 THEN "extract1" ELSE IF k = 2 THEN "extract2" ELSE "extract3")
    /\ UNCHANGED <<frame, description, show_full, messages,
                   basic_function, documented_function, final_code, filename,
                   result, console, fileWritten, fileName, fileContent, failedStep, outcome>>
    /\ UNCHANGED fnVars

\* variant: the failure is caught in create_python_function, which returns
\* what it has so far
CompletionFail_returns_partial(k) ==
    /\ AtCall(k)
    /\ calls' = Append(calls, [messages |-> messages, raised |-> TRUE, content |-> <<>>])
    /\ failedStep' = k
    /\ result' = <<basic_function, documented_function, final_code>>
    /\ frame' = "returned"
    /\ messages' = <<>>
    /\ response1' = <<>> /\ response2' = <<>> /\ response3' = <<>>
    /\ basic_function' = <<>> /\ documented_function' = <<>> /\ final_code' = <<>>
    /\ pc' = "main_success"
    /\ UNCHANGED <<description, show_full, filename, console,
                   fileWritten, fileName, fileContent, outcome>>
    /\ UNCHANGED fnVars

\* variant: the failure is swallowed and the step goes on with an empty response
CompletionFail_swallowed(k) ==
    /\ AtCall(k)
    /\ calls' = Append(calls, [messages |-> messages, raised |-> TRUE, content |-> <<>>])
    /\ failedStep' = k
    /\ response1' = (IF k = 1 THEN <<>> ELSE response1)
    /\ response2' = (IF k = 2 THEN <<>> ELSE response2)
    /\ response3' = (IF k = 3 THEN <<>> ELSE response3)
    /\ pc' = (IF k = 1 THEN "extract1" ELSE IF k = 2 THEN "extract2" ELSE "extract3")
    /\ UNCHANGED <<frame, description, show_full, messages,
                   basic_function, documented_function, final_code, filename,
                   result, console, fileWritten, fileName, fileContent, outcome>>
    /\ UNCHANGED fnVars

\* completion raises: nothing in create_python_function catches it, so the
\* frame is unwound and control reaches main's except clause (line 236)
CompletionFail(k) ==
    /\ AtCall(k)
    /\ calls' = Append(calls, [messages |-> messages, raised |-> TRUE, content |-> <<>>])
    /\ failedStep' = k
    /\ frame' = "unwound"
    /\ messages' = <<>>
    /\ response1' = <<>> /\ response2' = <<>> /\ response3' = <<>>
    /\ basic_function' = <<>> /\ documented_function' = <<>> /\ final_code' = <<>>
    /\ pc' = "main_except"
    /\ UNCHANGED <<description, show_full, filename, result, console,
                   fileWritten, fileName, fileContent, outcome>>
    /\ UNCHANGED fnVars

FullResponse(r) == IF show_full THEN <<Line("full_response", r)>> ELSE <<>>

\* lines 106-115, 136-145, 166-175
ExtractStep(k) ==
    /\ AtExtract(k)
    /\ basic_function' = (IF k = 1 THEN extract_code_block(response1) ELSE basic_function)
    /\ documented_function' =
           (IF k = 2 THEN extract_code_block(response2) ELSE documented_function)
    /\ final_code' = (IF k = 3 THEN extract_code_block(response3) ELSE final_code)
    /\ console' =
           (IF k = 1
            THEN console \o FullResponse(response1)
                     \o <<Line("basic", extract_code_block(response1))>>
            ELSE IF k = 2
            THEN console \o FullResponse(response2)
                     \o <<Line("documented", extract_code_block(response2))>>
            ELSE console \o FullResponse(response3)
                     \o <<Line("final", extract_code_block(response3))>>)
    /\ pc' = (IF k = 1 THEN "assistant1" ELSE IF k = 2 THEN "assistant2" ELSE "save")
    /\ UNCHANGED <<frame, description, show_full, messages,
                   response1, response2, response3, filename,
                   result, calls, fileWritten, fileName, fileContent, failedStep, outcome>>
    /\ UNCHANGED fnVars

\* variant: no assistant turn is added
AppendAssistant_skipped(k) ==
    /\ AtAssistant(k)
    /\ pc' = (IF k = 1 THEN "user2" ELSE "user3")
    /\ UNCHANGED <<frame, description, show_full, messages,
                   response1, response2, response3,
                   basic_function, documented_function, final_code, filename,
                   result, calls, console, fileWritten, fileName, fileContent,
                   failedStep, outcome>>
    /\ UNCHANGED fnVars

\* variant: the raw response is added as the assistant turn
AppendAssistant_raw(k) ==
    /\ AtAssistant(k)
    /\ messages' = Append(messages,
                      Msg("assistant", IF k = 1 THEN response1 ELSE response2))
    /\ pc' = (IF k = 1 THEN "user2" ELSE "user3")
    /\ UNCHANGED <<frame, description, show_full, response1, response2, response3,
                   basic_function, documented_function, final_code, filename,
                   result, calls, console, fileWritten, fileName, fileContent,
                   failedStep, outcome>>
    /\ UNCHANGED fnVars

\* lines 118-121, 148-151
AppendAssistant(k) ==
    /\ AtAssistant(k)
    /\ messages' = Append(messages,
                      Msg("assistant",
                          create_clean_assistant_response(
                              IF k = 1 THEN basic_function ELSE documented_function)))
    /\ pc' = (IF k = 1 THEN "user2" ELSE "user3")
    /\ UNCHANGED <<frame, description, show_full, response1, response2, response3,
                   basic_function, documented_function, final_code, filename,
                   result, calls, console, fileWritten, fileName, fileContent,
                   failedStep, outcome>>
    /\ UNCHANGED fnVars

\* save_function_to_file, lines 60-65, called at line 181
SaveOk ==
    /\ pc = "save"
    /\ fileWritten' = TRUE
    /\ fileName' = generate_filename(description)
    /\ fileContent' = final_code
    /\ filename' = generate_filename(description)
    /\ console' = Append(console, Line("saving", <<>>))
    /\ pc' = "finish"
    /\ UNCHANGED <<frame, description, show_full, messages,
                   response1, response2, response3,
                   basic_function, documented_function, final_code,
                   result, calls, failedStep, outcome>>
    /\ UNCHANGED fnVars

\* variant: the warning is printed and the exception raised again
SaveFail_reraised ==
    /\ pc = "save"
    /\ console' = console \o <<Line("saving", <<>>), Line("warning", <<>>)>>
    /\ frame' = "unwound"
    /\ messages' = <<>>
    /\ response1' = <<>> /\ response2' = <<>> /\ response3' = <<>>
    /\ basic_function' = <<>> /\ documented_function' = <<>> /\ final_code' = <<>>
    /\ filename' = <<>>
    /\ pc' = "main_except"
    /\ UNCHANGED <<description, show_full, result, calls, fileWritten, fileName,
                   fileContent, failedStep, outcome>>
    /\ UNCHANGED fnVars

\* save_function_to_file, lines 66-68: open/write raised, None returned
SaveFail ==
    /\ pc = "save"
    /\ filename' = <<>>
    /\ console' = console \o <<Line("saving", <<>>), Line("warning", <<>>)>>
    /\ pc' = "finish"
    /\ UNCHANGED <<frame, description, show_full, messages,
                   response1, response2, response3,
                   basic_function, documented_function, final_code,
                   result, calls, fileWritten, fileName, fileContent,
                   failedStep, outcome>>
    /\ UNCHANGED fnVars

DebugDump ==
    IF show_full
    THEN [i \in 1..Len(messages) |->
             Line(messages[i].role, Slice(messages[i].content, DebugLen))]
    ELSE <<>>

\* lines 183-194, and the tuple assignment of line 225
Finish ==
    /\ pc = "finish"
    /\ console' = console
                    \o (IF filename # <<>> THEN <<Line("saved", filename)>> ELSE <<>>)
                    \o DebugDump
    /\ result' = <<basic_function, documented_function, final_code>>
    /\ frame' = "returned"
    /\ messages' = <<>>
    /\ response1' = <<>> /\ response2' = <<>> /\ response3' = <<>>
    /\ basic_function' = <<>> /\ documented_function' = <<>> /\ final_code' = <<>>
    /\ filename' = <<>>
    /\ pc' = "main_success"
    /\ UNCHANGED <<description, show_full, calls, fileWritten, fileName, fileContent,
                   failedStep, outcome>>
    /\ UNCHANGED fnVars

\* main, lines 227-234
MainSuccess ==
    /\ pc = "main_success"
    /\ console' = Append(console, Line("success", <<>>))
    /\ outcome' = "success"
    /\ pc' = "done"
    /\ UNCHANGED <<frame, description, show_full, messages,
                   response1, response2, response3,
                   basic_function, documented_function, final_code, filename,
                   result, calls, fileWritten, fileName, fileContent, failedStep>>
    /\ UNCHANGED fnVars

\* main, lines 236-238
MainExcept ==
    /\ pc = "main_except"
    /\ console' = Append(console, Line("error", <<>>))
    /\ outcome' = "error"
    /\ pc' = "done"
    /\ UNCHANGED <<frame, description, show_full, messages,
                   response1, response2, response3,
                   basic_function, documented_function, final_code, filename,
                   result, calls, fileWritten, fileName, fileContent, failedStep>>
    /\ UNCHANGED fnVars

Next ==
    \/ MainNoDescription
    \/ MainStart
    \/ \E k \in 1..3 : AppendUser(k)
    \/ \E k \in 1..3 : CompletionOk(k)
    \/ \E k \in 1..3 : CompletionFail(k)
    \/ \E k \in 1..3 : ExtractStep(k)
    \/ \E k \in 1..2 : AppendAssistant(k)
    \/ SaveOk
    \/ SaveFail
    \/ Finish
    \/ MainSuccess
    \/ MainExcept

Spec == Init /\ [][Next]_vars

----------------------------------------------------------------------------
(* The extractor and the formatter applied to arbitrary text *)

InitFn ==
    /\ DriverIdle
    /\ text \in TextInputs
    /\ ops = <<>>
    /\ vals = <<>>

Current == IF vals = <<>> THEN text ELSE vals[Len(vals)]

ApplyExtract ==
    /\ Len(ops) < MaxOps
    /\ ops' = Append(ops, "extract")
    /\ vals' = Append(vals, extract_code_block(Current))
    /\ UNCHANGED text
    /\ UNCHANGED driverVars

ApplyFormat ==
    /\ Len(ops) < MaxOps
    /\ ops' = Append(ops, "format")
    /\ vals' = Append(vals, create_clean_assistant_response(Current))
    /\ UNCHANGED text
    /\ UNCHANGED driverVars

NextFn == ApplyExtract \/ ApplyFormat

SpecFn == InitFn /\ [][NextFn]_vars

----------------------------------------------------------------------------
(* Vocabulary of the properties, stated without the program's functions *)

MarkerAt(s, i) ==
    /\ i >= 1 /\ i + 2 <= Len(s)
    /\ s[i] = Backquote /\ s[i + 1] = Backquote /\ s[i + 2] = Backquote

NoMarker(s) == \A i \in 1..Len(s) : ~MarkerAt(s, i)

FirstMarker(s) == CHOOSE i \in 1..Len(s) : MarkerAt(s, i) /\ \A j \in 1..(i - 1) : ~MarkerAt(s, j)

\* a second marker that does not overlap the first
AtLeastTwoMarkers(s) ==
    /\ ~NoMarker(s)
    /\ \E j \in (FirstMarker(s) + 3)..Len(s) : MarkerAt(s, j)

ExactlyOneMarker(s) == ~NoMarker(s) /\ ~AtLeastTwoMarkers(s)

SecondMarker(s) ==
    CHOOSE j \in (FirstMarker(s) + 3)..Len(s) :
        MarkerAt(s, j) /\ \A m \in (FirstMarker(s) + 3)..(j - 1) : ~MarkerAt(s, m)

\* the content between the first and the second marker
Between(s) == SubSeq(s, FirstMarker(s) + 3, SecondMarker(s) - 1)

Padded(s) == s # <<>> /\ (s[1] \in WS \/ s[Len(s)] \in WS)

\* t is s without its leading and trailing whitespace
IsTrimOf(t, s) ==
    /\ ~Padded(t)
    /\ \E i \in 0..Len(s), j \in 0..Len(s) :
          /\ i + Len(t) + j = Len(s)
          /\ \A m \in 1..i : s[m] \in WS
          /\ \A m \in (Len(s) - j + 1)..Len(s) : s[m] \in WS
          /\ \A m \in 1..Len(t) : t[m] = s[i + m]

\* the text is already a formatter output for some clean code
IsCanonical(r) ==
    \E i \in 1..(Len(r) + 1), j \in 0..Len(r) :
        LET c == SubSeq(r, i, j)
        IN /\ NoMarker(c)
           /\ ~Padded(c)
           /\ r = Marker \o Python \o <<"\n">> \o c \o <<"\n">> \o Marker

Applied(seq) == Len(ops) >= Len(seq) /\ SubSeq(ops, 1, Len(seq)) = seq

Roles(h) == [i \in 1..Len(h) |-> h[i].role]

IsPrefix(a, b) == Len(a) <= Len(b) /\ SubSeq(b, 1, Len(a)) = a

AllOk == Len(calls) = 3 /\ \A i \in 1..3 : ~calls[i].raised

----------------------------------------------------------------------------
(* C1 *)

----------------------------------------------------------------------------
(* C2 *)

Step1Code == extract_code_block(calls[1].content)

\* C2 as stated: after completion succeeded at step 1 and raised at step 2,
\* step 1's extracted code is still held as the step-1 output (in
\* basic_function or in main's tuple), no step-3 user message was appended
\* and no third call was made.
C2_Original ==
    (pc \in {"main_except", "done"} /\ failedStep = 2) =>
        /\ \/ basic_function = Step1Code /\ frame = "live"
           \/ result # <<>> /\ result[1] = Step1Code
        /\ Len(calls) = 2

\* C2 amended: after completion succeeded at step 1 and raised at step 2,
\* step 1's extracted code has been printed and that print is its only
\* record: the frame holding basic_function is unwound and main's tuple is
\* never bound.  Exactly two calls were made, the second one with a
\* 4-message history, so no step-3 user message and no third call.
C2_AbortAtStep2 ==
    (pc \in {"main_except", "done"} /\ failedStep = 2) =>
        /\ \E i \in 1..Len(console) : console[i] = Line("basic", Step1Code)
        /\ frame = "unwound"
        /\ result = <<>>
        /\ Len(calls) = 2
        /\ ~calls[1].raised /\ calls[2].raised
        /\ Len(calls[2].messages) = 4
        /\ \A i \in 1..Len(calls) : \A m \in 1..Len(calls[i].messages) :
               calls[i].messages[m].content # Step3Prompt
        /\ ~fileWritten

C2_Witness == pc = "done" /\ failedStep = 2 /\ outcome = "error"

----------------------------------------------------------------------------
(* C3 *)

\* C3 as stated: for every code without a marker,
\* extract_code_block(create_clean_assistant_response(code)) = code.
C3_Original ==
    (Applied(<<"format", "extract">>) /\ NoMarker(text)) => vals[2] = text

\* C3 amended: for every code without a marker,
\* extract_code_block(create_clean_assistant_response(code)) is code with its
\* leading and trailing whitespace trimmed; it equals code exactly when code
\* has no leading or trailing whitespace (the empty string and strings
\* starting with 'python' included).
C3_RoundTrip ==
    (Applied(<<"format", "extract">>) /\ NoMarker(text)) =>
        /\ IsTrimOf(vals[2], text)
        /\ (vals[2] = text) <=> ~Padded(text)

C3_Witness ==
    /\ Applied(<<"format", "extract">>)
    /\ NoMarker(text)
    /\ startswith(vals[2], Python)
    /\ Padded(text)

----------------------------------------------------------------------------
(* C4 *)

\* C4 as stated: for every text x,
\* extract(format(extract(x))) = extract(x).
C4_Original ==
    Applied(<<"extract", "format", "extract">>) => vals[3] = vals[1]

\* C4 amended: for every text x with no marker or with at least two markers,
\* extract(format(extract(x))) = extract(x).  (With exactly one marker the
\* fallback keeps the marker in extract(x) and the second extraction cuts
\* the text at it.)
C4_Idempotent ==
    (Applied(<<"extract", "format", "extract">>) /\ ~ExactlyOneMarker(text)) =>
        vals[3] = vals[1]

C4_Witness ==
    /\ Applied(<<"extract", "format", "extract">>)
    /\ AtLeastTwoMarkers(text)
    /\ vals[1] # <<>>
    /\ vals[1] # text

----------------------------------------------------------------------------
(* C5 *)

\* C5: when a completion call raises, control is in main's except clause or
\* past it, main ends by reporting the error, and no file is written; a
\* file is written only after three completion calls returned.
C5_NoPartialSave ==
    /\ failedStep # 0 =>
          /\ pc \in {"main_except", "done"}
          /\ ~fileWritten
          /\ result = <<>>
          /\ calls[Len(calls)].raised /\ Len(calls) = failedStep
    /\ (failedStep # 0 /\ pc = "done") =>
          /\ outcome = "error"
          /\ console[Len(console)] = Line("error", <<>>)
    /\ fileWritten => (AllOk /\ failedStep = 0)

C5_Witness == pc = "done" /\ failedStep = 3 /\ outcome = "error"

----------------------------------------------------------------------------
(* C6 *)

WriteFailed == \E i \in 1..Len(console) : console[i] = Line("warning", <<>>)

\* C6: when the three completion calls returned and the file write failed,
\* a warning is printed, create_python_function still returns the three
\* extracted codes and main ends on its success path.
C6_WriteFailure ==
    (WriteFailed /\ pc \in {"main_success", "done"}) =>
        /\ AllOk
        /\ failedStep = 0
        /\ ~fileWritten
        /\ result = <<extract_code_block(calls[1].content),
                      extract_code_block(calls[2].content),
                      extract_code_block(calls[3].content)>>
        /\ pc = "done" => outcome = "success"

C6_Witness == WriteFailed /\ pc = "done" /\ outcome = "success" /\ ~fileWritten

----------------------------------------------------------------------------
(* C7 *)

\* C7: for every text with no marker or exactly one marker,
\* extract_code_block returns the text with only its surrounding whitespace
\* trimmed (and always returns a text).
C7_Fallback ==
    (Applied(<<"extract">>) /\ ~AtLeastTwoMarkers(text)) =>
        /\ IsTrimOf(vals[1], text)
        /\ DOMAIN vals[1] = 1..Len(vals[1])

C7_Witness ==
    /\ Applied(<<"extract">>)
    /\ ExactlyOneMarker(text)
    /\ Padded(text)
    /\ vals[1] # text

----------------------------------------------------------------------------
(* C8 *)

\* the content begins with the language tag as a token of its own
BeginsWithTag(c) ==
    /\ startswith(c, Python)
    /\ (Len(c) = Len(Python) \/ c[Len(Python) + 1] \in WS)

\* C8: for every text with at least two markers, extract_code_block returns
\* the content between the first and the second marker, trimmed, without
\* its leading language tag when it begins with one, and trimmed but
\* otherwise unchanged when it does not.
C8_Original ==
    (Applied(<<"extract">>) /\ AtLeastTwoMarkers(text)) =>
        \E c \in {strip(Between(text))} :
            IF BeginsWithTag(c)
            THEN IsTrimOf(vals[1], SubSeq(c, Len(Python) + 1, Len(c)))
            ELSE vals[1] = c

----------------------------------------------------------------------------
(* C9 *)

AfterExtract1 == {"assistant1", "user2", "call2", "extract2", "assistant2",
                  "user3", "call3", "extract3", "save", "finish"}
AfterExtract2 == {"assistant2", "user3", "call3", "extract3", "save", "finish"}
AfterExtract3 == {"save", "finish"}

AssistantFromFormatter ==
    \A i \in 1..Len(messages) :
        messages[i].role = "assistant" =>
            /\ i \in {3, 5}
            /\ messages[i].content =
                  create_clean_assistant_response(
                      extract_code_block(calls[(i - 1) \div 2].content))

OutputsRecorded ==
    /\ pc \in AfterExtract1 => basic_function = extract_code_block(calls[1].content)
    /\ pc \in AfterExtract2 => documented_function = extract_code_block(calls[2].content)
    /\ pc \in AfterExtract3 => final_code = extract_code_block(calls[3].content)

\* C9 as stated: every assistant message is the formatter's output for the
\* code extracted from its step's raw text, each step's recorded output is
\* that extracted code, and the raw text is never in the history.
C9_Original ==
    /\ AssistantFromFormatter
    /\ OutputsRecorded
    /\ \A i \in 1..Len(messages) : \A k \in 1..Len(calls) :
           (messages[i].role = "assistant" /\ ~calls[k].raised) =>
               messages[i].content # calls[k].content

\* C9 amended: every assistant message is the formatter's output for the
\* code extracted from its step's raw text, each step's recorded output is
\* that extracted code, and the stored text differs from the step's raw
\* text unless the raw text is already the formatter's output for clean code.
C9_Normalised ==
    /\ AssistantFromFormatter
    /\ OutputsRecorded
    /\ \A i \in 1..Len(messages) :
           messages[i].role = "assistant" =>
               LET r == calls[(i - 1) \div 2].content
               IN (messages[i].content = r) <=> IsCanonical(r)

C9_Witness ==
    /\ pc = "user3"
    /\ Len(messages) = 5
    /\ ~IsCanonical(calls[1].content)
    /\ IsCanonical(calls[2].content)
    /\ basic_function # calls[1].content

----------------------------------------------------------------------------
(* C10 *)

\* C10: the completion client is called at most three times; the k-th call
\* receives the system message followed by k user and k-1 assistant
\* messages, alternating and ending with step k's instruction; a call
\* follows only calls that returned; every earlier call's history is a
\* prefix of every later one's and of the live history.
C10_Calls ==
    /\ Len(calls) <= 3
    /\ \A k \in 1..Len(calls) :
          LET h == calls[k].messages
          IN /\ Len(h) = 2 * k
             /\ h[1] = Msg("system", SystemPrompt)
             /\ \A i \in 2..Len(h) :
                    h[i].role = (IF i % 2 = 0 THEN "user" ELSE "assistant")
             /\ h[Len(h)] = Msg("user", UserPrompt(k, description))
             /\ \A j \in 1..(k - 1) :
                    /\ ~calls[j].raised
                    /\ IsPrefix(calls[j].messages, h)
             /\ frame = "live" => IsPrefix(h, messages)

C10_Witness == Len(calls) = 3 /\ frame = "live" /\ Len(messages) = 6

====
